---- MODULE Spec2Model ----
(***************************************************************************)
(* Magic-link plugin of better-auth                                        *)
(* (packages/better-auth/src/plugins/magic-link/index.ts).                 *)
(*                                                                         *)
(* Two endpoints share the identity store (verification records, users,    *)
(* sessions): signInMagicLink issues a token, magicLinkVerify redeems it.  *)
(* Every `await` of a handler is a point where other requests may run, so  *)
(* each handler is cut into one action per store call; the synchronous     *)
(* code that follows a call up to the next call belongs to the action of   *)
(* the call it follows.                                                    *)
(*                                                                         *)
(* An optional value (undefined / null in the source) is a sequence of     *)
(* length at most one: <<>> is undefined, <<v>> is the value v.            *)
(***************************************************************************)
EXTENDS Integers, Sequences, FiniteSets, TLC

VARIABLES options, now, verifications, users, sessions, nextToken, sent,
          issue, redeem, limiter

vars == <<options, now, verifications, users, sessions, nextToken, sent,
          issue, redeem, limiter>>

(***************************************************************************)
(* Bounds of the model.                                                    *)
(***************************************************************************)
MaxIssuers == 1
MaxRedeemers == 2

MaxRejected == 2

Issuers == 1..MaxIssuers
Redeemers == 1..MaxRedeemers

(***************************************************************************)
(* Inputs.                                                                 *)
(***************************************************************************)
Emails == {"a@b.com", "c@d.com"}
IssueCallbackURLs == {<<>>, <<"/dash">>}
VerifyCallbackURLs == {<<>>, <<"">>, <<"/dash">>, <<"https://x/y">>}
ExpiresInOptions == {<<>>, <<1>>}
\* the instants (Date.now(), in milliseconds) at which the clock is observed
Instants == {0, 1000, 1001}

OptionsBaseURL == "http://app"
ContextBaseURL == "http://app/api/auth"

\* @default (60 * 5) of MagicLinkOptions.expiresIn, as written at line 111
DefaultExpiresIn == 60 * 5

(***************************************************************************)
(* JavaScript helpers.                                                     *)
(***************************************************************************)
\* truthiness of an optional string: undefined and "" are falsy
TruthyStr(o) == o # <<>> /\ o[1] # ""

\* truthiness of an optional number: undefined and 0 are falsy
TruthyNum(o) == o # <<>> /\ o[1] # 0

\* String.prototype.startsWith
StartsWith(s, p) == Len(s) >= Len(p) /\ SubSeq(s, 1, Len(p)) = p

\* generateRandomString(32, alphabet("a-z", "A-Z")): the n-th token drawn;
\* draws are distinct
Token(n) == "tok" \o ToString(n)

(***************************************************************************)
(* The identity store.                                                     *)
(***************************************************************************)
FindUserByEmail(email) ==
    IF \E u \in users : u.email = email
    THEN <<CHOOSE u \in users : u.email = email>>
    ELSE <<>>

FindVerificationValue(token) ==
    IF \E v \in verifications : v.identifier = token
    THEN <<CHOOSE v \in verifications : v.identifier = token>>
    ELSE <<>>

(***************************************************************************)
(* Initial state.  The store outlives the plugin: it may already hold an   *)
(* account, and a verification record issued before this configuration     *)
(* was installed.                                                          *)
(***************************************************************************)
User0 == [id |-> "u1", email |-> "a@b.com", emailVerified |-> FALSE,
          name |-> "A"]
Verification0 == [id |-> "v:" \o Token(0), identifier |-> Token(0),
                  value |-> "c@d.com", expiresAt |-> 1000]

IssueIdle == [pc |-> "idle", email |-> "", callbackURL |-> <<>>,
              verificationToken |-> <<>>, expiresAt |-> 0, url |-> "",
              result |-> "none"]

NoResult == [kind |-> "none", location |-> "", body |-> <<>>]

RedeemIdle == [pc |-> "idle", token |-> "", callbackURL |-> <<>>,
               toRedirectTo |-> "", tokenValue |-> <<>>, user |-> <<>>,
               userId |-> "", newUser |-> <<>>, session |-> <<>>,
               cookie |-> <<>>, result |-> NoResult, after |-> {}]

\* no request has passed the rate-limit gate
LimiterIdle == [windowStart |-> 0, count |-> 0, rejected |-> 0]

\* the state after construction, for a set of configurations
InitWith(configurations) ==
    /\ options \in configurations
    /\ now = 0
    /\ verifications = {Verification0}
    /\ users = {User0}
    /\ sessions = {}
    /\ nextToken = 1
    /\ sent = {}
    /\ issue = [i \in Issuers |-> IssueIdle]
    /\ redeem = [r \in Redeemers |-> RedeemIdle]
    /\ limiter = LimiterIdle

Init ==
    InitWith([disableSignUp : BOOLEAN, expiresIn : ExpiresInOptions,
              rateLimit : {<<>>}])

(***************************************************************************)
(* Time.                                                                   *)
(***************************************************************************)
Tick ==
    /\ \E t \in Instants : t > now /\ now' = t
    /\ UNCHANGED <<limiter, options, verifications, users, sessions, nextToken,
                   sent, issue, redeem>>

(***************************************************************************)
(* signInMagicLink                                                         *)
(***************************************************************************)
\* lines 103-112: the token and the expiry are computed before the store
\* call is awaited
GenerateToken(i, rec) ==
    /\ issue' = [issue EXCEPT ![i] =
          [rec EXCEPT !.pc = "createVerificationValue",
                      !.verificationToken = <<Token(nextToken)>>,
                      !.expiresAt = now +
                          (IF TruthyNum(options.expiresIn)
                           THEN options.expiresIn[1]
                           ELSE DefaultExpiresIn) * 1000]]
    /\ nextToken' = nextToken + 1

\* faulty variant: the account is looked up whatever disableSignUp says
SignInMagicLink_AlwaysLookup(i, email, callbackURL) ==
    /\ issue[i].pc = "idle"
    /\ \A j \in Issuers : j < i => issue[j].pc # "idle"
    /\ issue' = [issue EXCEPT ![i] =
          [issue[i] EXCEPT !.email = email, !.callbackURL = callbackURL,
                           !.pc = "findUserByEmail"]]
    /\ UNCHANGED <<limiter, options, now, verifications, users, sessions,
                   nextToken, sent, redeem>>

\* a request arrives; with sign-up enabled the handler runs to line 107
SignInMagicLink(i, email, callbackURL) ==
    /\ issue[i].pc = "idle"
    /\ \A j \in Issuers : j < i => issue[j].pc # "idle"
    /\ LET rec == [issue[i] EXCEPT !.email = email,
                                   !.callbackURL = callbackURL]
       IN IF options.disableSignUp
          THEN /\ issue' = [issue EXCEPT ![i] =
                               [rec EXCEPT !.pc = "findUserByEmail"]]
               /\ UNCHANGED nextToken
          ELSE GenerateToken(i, rec)
    /\ UNCHANGED <<limiter, options, now, verifications, users, sessions, sent,
                   redeem>>

\* faulty variant: an unknown email is not rejected
SignInFindUser_NoThrow(i) ==
    /\ issue[i].pc = "findUserByEmail"
    /\ GenerateToken(i, issue[i])
    /\ UNCHANGED <<limiter, options, now, verifications, users, sessions, sent,
                   redeem>>

\* lines 93-101
SignInFindUser(i) ==
    /\ issue[i].pc = "findUserByEmail"
    /\ IF FindUserByEmail(issue[i].email) = <<>>
       THEN /\ issue' = [issue EXCEPT ![i].pc = "done",
                                      ![i].result = "BAD_REQUEST"]
            /\ UNCHANGED nextToken
       ELSE GenerateToken(i, issue[i])
    /\ UNCHANGED <<limiter, options, now, verifications, users, sessions, sent,
                   redeem>>

\* lines 107-118
SignInCreateVerificationValue(i) ==
    /\ issue[i].pc = "createVerificationValue"
    /\ verifications' = verifications \cup
          {[id |-> "v:" \o issue[i].verificationToken[1],
            identifier |-> issue[i].verificationToken[1],
            value |-> issue[i].email,
            expiresAt |-> issue[i].expiresAt]}
    /\ issue' = [issue EXCEPT ![i].pc = "sendMagicLink",
                    ![i].url = ContextBaseURL \o "/magic-link/verify?token="
                        \o issue[i].verificationToken[1] \o "&callbackURL="
                        \o (IF TruthyStr(issue[i].callbackURL)
                            THEN issue[i].callbackURL[1] ELSE "/")]
    /\ UNCHANGED <<limiter, options, now, users, sessions, nextToken, sent,
                   redeem>>

\* faulty variant: a failed delivery rolls the record back
SignInSendMagicLink_Rollback(i) ==
    /\ issue[i].pc = "sendMagicLink"
    /\ \E delivered \in BOOLEAN :
          IF delivered
          THEN /\ sent' = sent \cup
                     {[email |-> issue[i].email, url |-> issue[i].url,
                       token |-> issue[i].verificationToken[1]]}
               /\ verifications' = verifications
               /\ issue' = [issue EXCEPT ![i].pc = "done",
                                         ![i].result = "status:true"]
          ELSE /\ sent' = sent
               /\ verifications' =
                     {v \in verifications :
                         v.identifier # issue[i].verificationToken[1]}
               /\ issue' = [issue EXCEPT ![i].pc = "done",
                               ![i].result = "INTERNAL_SERVER_ERROR"]
    /\ UNCHANGED <<limiter, options, now, users, sessions, nextToken, redeem>>

\* lines 119-136: the delivery callback returns or throws
SignInSendMagicLink(i) ==
    /\ issue[i].pc = "sendMagicLink"
    /\ \E delivered \in BOOLEAN :
          IF delivered
          THEN /\ sent' = sent \cup
                     {[email |-> issue[i].email, url |-> issue[i].url,
                       token |-> issue[i].verificationToken[1]]}
               /\ issue' = [issue EXCEPT ![i].pc = "done",
                                         ![i].result = "status:true"]
          ELSE /\ sent' = sent
               /\ issue' = [issue EXCEPT ![i].pc = "done",
                               ![i].result = "INTERNAL_SERVER_ERROR"]
    /\ UNCHANGED <<limiter, options, now, verifications, users, sessions,
                   nextToken, redeem>>

(***************************************************************************)
(* magicLinkVerify                                                         *)
(***************************************************************************)
\* faulty variant: an absolute callbackURL is prefixed like a relative one
ToRedirectTo_AlwaysPrefix(callbackURL) ==
    IF TruthyStr(callbackURL)
    THEN OptionsBaseURL \o callbackURL[1]
    ELSE OptionsBaseURL

\* lines 183-187
ToRedirectTo(callbackURL) ==
    IF callbackURL # <<>> /\ StartsWith(callbackURL[1], "http")
    THEN callbackURL[1]
    ELSE IF TruthyStr(callbackURL)
         THEN OptionsBaseURL \o callbackURL[1]
         ELSE OptionsBaseURL

\* ctx.redirect(url)
Redirect(url) == [kind |-> "redirect", location |-> url, body |-> <<>>]

\* ctx.json({session, user})
Json(session, user) ==
    [kind |-> "json", location |-> "",
     body |-> <<[session |-> session, user |-> user]>>]

\* the tokens a request may present; one that was not issued yet has no
\* record
PresentableTokens == {Token(n) : n \in 0..MaxIssuers}

\* lines 182-189: a request arrives and the record is looked up
VerifyFindVerificationValue(r, token, callbackURL) ==
    /\ redeem[r].pc = "idle"
    /\ \A q \in Redeemers : q < r => redeem[q].pc # "idle"
    /\ redeem' = [redeem EXCEPT ![r] =
          [redeem[r] EXCEPT !.pc = "checkToken",
                    !.token = token,
                    !.callbackURL = callbackURL,
                    !.toRedirectTo = ToRedirectTo(callbackURL),
                    !.tokenValue = FindVerificationValue(token),
                    !.after = {q \in Redeemers :
                                 /\ redeem[q].pc = "done"
                                 /\ redeem[q].token = token
                                 /\ redeem[q].tokenValue # <<>>}]]
    /\ UNCHANGED <<limiter, options, now, verifications, users, sessions,
                   nextToken, sent, issue>>

\* faulty variant: a record is expired from the instant expiresAt on
VerifyCheckToken_ExpiredAtBoundary(r) ==
    /\ redeem[r].pc = "checkToken"
    /\ redeem' = [redeem EXCEPT ![r] =
          IF redeem[r].tokenValue = <<>>
          THEN [redeem[r] EXCEPT !.pc = "done",
                         !.result = Redirect(redeem[r].toRedirectTo
                                             \o "?error=INVALID_TOKEN")]
          ELSE IF redeem[r].tokenValue[1].expiresAt <= now
               THEN [redeem[r] EXCEPT !.pc = "deleteExpired"]
               ELSE [redeem[r] EXCEPT !.pc = "deleteVerificationValue"]]
    /\ UNCHANGED <<limiter, options, now, verifications, users, sessions,
                   nextToken, sent, issue>>

\* faulty variant: a missing record is reported as an expired one
VerifyCheckToken_MissingIsExpired(r) ==
    /\ redeem[r].pc = "checkToken"
    /\ redeem' = [redeem EXCEPT ![r] =
          IF redeem[r].tokenValue = <<>>
          THEN [redeem[r] EXCEPT !.pc = "done",
                         !.result = Redirect(redeem[r].toRedirectTo
                                             \o "?error=EXPIRED_TOKEN")]
          ELSE IF redeem[r].tokenValue[1].expiresAt < now
               THEN [redeem[r] EXCEPT !.pc = "deleteExpired"]
               ELSE [redeem[r] EXCEPT !.pc = "deleteVerificationValue"]]
    /\ UNCHANGED <<limiter, options, now, verifications, users, sessions,
                   nextToken, sent, issue>>

\* lines 190-193: the continuation of the lookup reads the clock
VerifyCheckToken(r) ==
    /\ redeem[r].pc = "checkToken"
    /\ redeem' = [redeem EXCEPT ![r] =
          IF redeem[r].tokenValue = <<>>
          THEN [redeem[r] EXCEPT !.pc = "done",
                         !.result = Redirect(redeem[r].toRedirectTo
                                             \o "?error=INVALID_TOKEN")]
          ELSE IF redeem[r].tokenValue[1].expiresAt < now
               THEN [redeem[r] EXCEPT !.pc = "deleteExpired"]
               ELSE [redeem[r] EXCEPT !.pc = "deleteVerificationValue"]]
    /\ UNCHANGED <<limiter, options, now, verifications, users, sessions,
                   nextToken, sent, issue>>

\* internalAdapter.deleteVerificationValue(id)
DeleteVerificationValue(id) == {v \in verifications : v.id # id}

\* faulty variant: the expired record is left in the store
VerifyDeleteExpired_NoDelete(r) ==
    /\ redeem[r].pc = "deleteExpired"
    /\ redeem' = [redeem EXCEPT ![r].pc = "done",
                     ![r].result = Redirect(redeem[r].toRedirectTo
                                            \o "?error=EXPIRED_TOKEN")]
    /\ UNCHANGED <<limiter, options, now, verifications, users, sessions,
                   nextToken, sent, issue>>

\* lines 194-197
VerifyDeleteExpired(r) ==
    /\ redeem[r].pc = "deleteExpired"
    /\ verifications' = DeleteVerificationValue(redeem[r].tokenValue[1].id)
    /\ redeem' = [redeem EXCEPT ![r].pc = "done",
                     ![r].result = Redirect(redeem[r].toRedirectTo
                                            \o "?error=EXPIRED_TOKEN")]
    /\ UNCHANGED <<limiter, options, now, users, sessions, nextToken, sent,
                   issue>>

\* faulty variant: every record issued for the same email is deleted
VerifyDeleteVerificationValue_ByEmail(r) ==
    /\ redeem[r].pc = "deleteVerificationValue"
    /\ verifications' =
          {v \in verifications : v.value # redeem[r].tokenValue[1].value}
    /\ redeem' = [redeem EXCEPT ![r].pc = "findUserByEmail"]
    /\ UNCHANGED <<limiter, options, now, users, sessions, nextToken, sent,
                   issue>>

\* faulty variant: the record is not consumed before the account is resolved
VerifyDeleteVerificationValue_NoDelete(r) ==
    /\ redeem[r].pc = "deleteVerificationValue"
    /\ redeem' = [redeem EXCEPT ![r].pc = "findUserByEmail"]
    /\ UNCHANGED <<limiter, options, now, verifications, users, sessions,
                   nextToken, sent, issue>>

\* lines 199-202
VerifyDeleteVerificationValue(r) ==
    /\ redeem[r].pc = "deleteVerificationValue"
    /\ verifications' = DeleteVerificationValue(redeem[r].tokenValue[1].id)
    /\ redeem' = [redeem EXCEPT ![r].pc = "findUserByEmail"]
    /\ UNCHANGED <<limiter, options, now, users, sessions, nextToken, sent,
                   issue>>

\* faulty variant: an unknown email is signed up whatever disableSignUp says
VerifyFindUserByEmail_SignUpAlways(r) ==
    /\ redeem[r].pc = "findUserByEmail"
    /\ LET user == FindUserByEmail(redeem[r].tokenValue[1].value)
       IN redeem' = [redeem EXCEPT ![r] =
             IF user # <<>>
             THEN [redeem[r] EXCEPT !.pc = "createSession", !.user = user,
                                    !.userId = user[1].id]
             ELSE [redeem[r] EXCEPT !.pc = "createUser"]]
    /\ UNCHANGED <<limiter, options, now, verifications, users, sessions,
                   nextToken, sent, issue>>

\* lines 203-207 and 217-219
VerifyFindUserByEmail(r) ==
    /\ redeem[r].pc = "findUserByEmail"
    /\ LET user == FindUserByEmail(redeem[r].tokenValue[1].value)
           userId == IF user # <<>> THEN user[1].id ELSE ""
       IN redeem' = [redeem EXCEPT ![r] =
             IF user # <<>>
             THEN [redeem[r] EXCEPT !.pc = "createSession", !.user = user,
                            !.userId = userId]
             ELSE IF ~options.disableSignUp
                  THEN [redeem[r] EXCEPT !.pc = "createUser"]
                  ELSE [redeem[r] EXCEPT !.pc = "done",
                           !.result = Redirect(redeem[r].toRedirectTo
                                               \o "?error=USER_NOT_FOUND")]]
    /\ UNCHANGED <<limiter, options, now, verifications, users, sessions,
                   nextToken, sent, issue>>

\* faulty variant: the id of the new account is not taken over (line 213)
VerifyCreateUser_IdNotAssigned(r) ==
    /\ redeem[r].pc = "createUser"
    /\ \E created \in BOOLEAN :
          LET email == redeem[r].tokenValue[1].value
              newUser == [id |-> IF created
                                 THEN "u" \o ToString(Cardinality(users) + 1)
                                 ELSE "",
                          email |-> email, emailVerified |-> TRUE,
                          name |-> email]
          IN /\ users' = IF created THEN users \cup {newUser} ELSE users
             /\ redeem' = [redeem EXCEPT ![r] =
                   IF newUser.id # ""
                   THEN [redeem[r] EXCEPT !.pc = "createSession",
                                  !.newUser = <<newUser>>]
                   ELSE [redeem[r] EXCEPT !.pc = "done",
                                  !.newUser = <<newUser>>,
                                  !.result = Redirect(redeem[r].toRedirectTo
                                      \o "?error=USER_NOT_CREATED")]]
    /\ UNCHANGED <<limiter, options, now, verifications, sessions, nextToken,
                   sent, issue>>

\* lines 208-216: the store returns the new account, or one without an id
VerifyCreateUser(r) ==
    /\ redeem[r].pc = "createUser"
    /\ \E created \in BOOLEAN :
          LET email == redeem[r].tokenValue[1].value
              newUser == [id |-> IF created
                                 THEN "u" \o ToString(Cardinality(users) + 1)
                                 ELSE "",
                          email |-> email, emailVerified |-> TRUE,
                          name |-> email]
          IN /\ users' = IF created THEN users \cup {newUser} ELSE users
             /\ redeem' = [redeem EXCEPT ![r] =
                   IF newUser.id # ""
                   THEN [redeem[r] EXCEPT !.pc = "createSession",
                                  !.newUser = <<newUser>>,
                                  !.userId = newUser.id]
                   ELSE [redeem[r] EXCEPT !.pc = "done",
                                  !.newUser = <<newUser>>,
                                  !.result = Redirect(redeem[r].toRedirectTo
                                      \o "?error=USER_NOT_CREATED")]]
    /\ UNCHANGED <<limiter, options, now, verifications, sessions, nextToken,
                   sent, issue>>

\* faulty variant: the cookie is set before the session is known to exist
VerifyCreateSession_CookieFirst(r) ==
    /\ redeem[r].pc = "createSession"
    /\ \E created \in BOOLEAN :
          LET session == [id |-> "s" \o ToString(Cardinality(sessions) + 1),
                          userId |-> redeem[r].userId]
              cookie == <<[session |-> session, user |-> redeem[r].user]>>
          IN IF created
             THEN /\ sessions' = sessions \cup {session}
                  /\ redeem' = [redeem EXCEPT ![r].pc = "setSessionCookie",
                                              ![r].session = <<session>>,
                                              ![r].cookie = cookie]
             ELSE /\ sessions' = sessions
                  /\ redeem' = [redeem EXCEPT ![r].pc = "done",
                        ![r].cookie = cookie,
                        ![r].result = Redirect(redeem[r].toRedirectTo
                                          \o "?error=SESSION_NOT_CREATED")]
    /\ UNCHANGED <<limiter, options, now, verifications, users, nextToken, sent,
                   issue>>

\* lines 221-227: the store returns the new session, or null
VerifyCreateSession(r) ==
    /\ redeem[r].pc = "createSession"
    /\ \E created \in BOOLEAN :
          LET session == [id |-> "s" \o ToString(Cardinality(sessions) + 1),
                          userId |-> redeem[r].userId]
          IN IF created
             THEN /\ sessions' = sessions \cup {session}
                  /\ redeem' = [redeem EXCEPT ![r].pc = "setSessionCookie",
                                              ![r].session = <<session>>]
             ELSE /\ sessions' = sessions
                  /\ redeem' = [redeem EXCEPT ![r].pc = "done",
                        ![r].result = Redirect(redeem[r].toRedirectTo
                                          \o "?error=SESSION_NOT_CREATED")]
    /\ UNCHANGED <<limiter, options, now, verifications, users, nextToken, sent,
                   issue>>

\* faulty variant: the success redirect goes to the resolved target
VerifySetSessionCookie_RedirectResolved(r) ==
    /\ redeem[r].pc = "setSessionCookie"
    /\ redeem' = [redeem EXCEPT ![r] =
          [redeem[r] EXCEPT !.pc = "done",
                    !.cookie = <<[session |-> redeem[r].session[1],
                                  user |-> redeem[r].user]>>,
                    !.result = IF ~TruthyStr(redeem[r].callbackURL)
                               THEN Json(redeem[r].session[1], redeem[r].user)
                               ELSE Redirect(redeem[r].toRedirectTo)]]
    /\ UNCHANGED <<limiter, options, now, verifications, users, sessions,
                   nextToken, sent, issue>>

\* lines 228-238
VerifySetSessionCookie(r) ==
    /\ redeem[r].pc = "setSessionCookie"
    /\ redeem' = [redeem EXCEPT ![r] =
          [redeem[r] EXCEPT !.pc = "done",
                    !.cookie = <<[session |-> redeem[r].session[1],
                                  user |-> redeem[r].user]>>,
                    !.result = IF ~TruthyStr(redeem[r].callbackURL)
                               THEN Json(redeem[r].session[1], redeem[r].user)
                               ELSE Redirect(redeem[r].callbackURL[1])]]
    /\ UNCHANGED <<limiter, options, now, verifications, users, sessions,
                   nextToken, sent, issue>>

Next ==
    \/ Tick
    \/ \E i \in Issuers, email \in Emails, cb \in IssueCallbackURLs :
          SignInMagicLink(i, email, cb)
    \/ \E i \in Issuers : SignInFindUser(i)
    \/ \E i \in Issuers : SignInCreateVerificationValue(i)
    \/ \E i \in Issuers : SignInSendMagicLink(i)
    \/ \E r \in Redeemers, token \in PresentableTokens,
          cb \in VerifyCallbackURLs :
          VerifyFindVerificationValue(r, token, cb)
    \/ \E r \in Redeemers : VerifyCheckToken(r)
    \/ \E r \in Redeemers : VerifyDeleteExpired(r)
    \/ \E r \in Redeemers : VerifyDeleteVerificationValue(r)
    \/ \E r \in Redeemers : VerifyFindUserByEmail(r)
    \/ \E r \in Redeemers : VerifyCreateUser(r)
    \/ \E r \in Redeemers : VerifyCreateSession(r)
    \/ \E r \in Redeemers : VerifySetSessionCookie(r)

Spec == Init /\ [][Next]_vars

(***************************************************************************)
(* Issuance alone, over every kind of configured expiresIn.                *)
(***************************************************************************)
\* lines 14-19: expiresIn?: number, in seconds
ConfiguredExpiresIn == {<<>>, <<0>>, <<1>>, <<2>>}

InitIssuance ==
    InitWith([disableSignUp : BOOLEAN, expiresIn : ConfiguredExpiresIn,
              rateLimit : {<<>>}])

NextIssuance ==
    \/ Tick
    \/ \E i \in Issuers, email \in Emails, cb \in IssueCallbackURLs :
          SignInMagicLink(i, email, cb)
    \/ \E i \in Issuers : SignInFindUser(i)
    \/ \E i \in Issuers : SignInCreateVerificationValue(i)
    \/ \E i \in Issuers : SignInSendMagicLink(i)

SpecIssuance == InitIssuance /\ [][NextIssuance]_vars

(***************************************************************************)
(* The rate-limit rule of the plugin (lines 242-253) and the gate the      *)
(* framework puts in front of the issuance endpoint.                       *)
(***************************************************************************)
\* lines 39-42: rateLimit?: {window: number; max: number}
RateLimitOptions ==
    {<<>>, <<[window |-> 1, max |-> 2]>>, <<[window |-> 2, max |-> 1]>>,
     <<[window |-> 0, max |-> 2]>>, <<[window |-> 1, max |-> 0]>>}

DefaultRateLimitWindow == 60

DefaultRateLimitMax == 5

\* line 250: options.rateLimit?.window || 60
RateLimitWindow(o) ==
    IF o.rateLimit # <<>> /\ o.rateLimit[1].window # 0
    THEN o.rateLimit[1].window
    ELSE DefaultRateLimitWindow

\* line 251: options.rateLimit?.max || 5
RateLimitMax(o) ==
    IF o.rateLimit # <<>> /\ o.rateLimit[1].max # 0
    THEN o.rateLimit[1].max
    ELSE DefaultRateLimitMax

\* a request of one key for /sign-in/magic-link reaches the gate: it opens
\* a new window, is counted in the running one, or is rejected before the
\* handler runs
RateLimitedRequest ==
    /\ limiter' =
          IF now - limiter.windowStart >= RateLimitWindow(options) * 1000
          THEN [windowStart |-> now, count |-> 1, rejected |-> 0]
          ELSE IF limiter.count >= RateLimitMax(options)
               THEN [limiter EXCEPT !.rejected = limiter.rejected + 1]
               ELSE [limiter EXCEPT !.count = limiter.count + 1]
    /\ limiter'.rejected <= MaxRejected
    /\ UNCHANGED <<options, now, verifications, users, sessions, nextToken,
                   sent, issue, redeem>>

InitRateLimit ==
    InitWith([disableSignUp : {FALSE}, expiresIn : {<<>>},
              rateLimit : RateLimitOptions])

NextRateLimit ==
    \/ Tick
    \/ RateLimitedRequest

SpecRateLimit == InitRateLimit /\ [][NextRateLimit]_vars

(***************************************************************************)
(* Vocabulary of the properties.                                           *)
(***************************************************************************)
Done(r) == redeem[r].pc = "done"

ErrorRedirect(r, code) ==
    redeem[r].result = Redirect(redeem[r].toRedirectTo \o "?error=" \o code)

\* r took a step
Stepped(r) == redeem'[r] # redeem[r]

\* records written to the store so far: the one present initially and one
\* per issuance that passed createVerificationValue
RecordsIssued ==
    1 + Cardinality({i \in Issuers :
                        issue[i].pc \in {"sendMagicLink", "done"}
                        /\ issue[i].verificationToken # <<>>})

(***************************************************************************)
(* C1  Single use, sequential: a redemption that starts after a redemption *)
(* of the same token has fetched the record and completed finds no         *)
(* record, creates no session and ends with error=INVALID_TOKEN.           *)
(***************************************************************************)
C1_SingleUseSequential ==
    \A r \in Redeemers :
        redeem[r].after # {} =>
            /\ redeem[r].tokenValue = <<>>
            /\ redeem[r].session = <<>>
            /\ Done(r) => ErrorRedirect(r, "INVALID_TOKEN")

C1_Witness ==
    \E r \in Redeemers :
        /\ Done(r)
        /\ \E q \in redeem[r].after : redeem[q].session # <<>>

(***************************************************************************)
(* C2  Single use, concurrent: of the redemptions of one token, at most    *)
(* one creates a session.                                                  *)
(***************************************************************************)
C2_AtMostOneSessionPerToken ==
    \A r, q \in Redeemers :
        (r # q /\ redeem[r].token = redeem[q].token
               /\ redeem[r].session # <<>>)
            => redeem[q].session = <<>>

(***************************************************************************)
(* C3  Every session was created by a redemption that found a record,      *)
(* unexpired and not consumed by another redemption; there are never more  *)
(* sessions than records issued.                                           *)
(***************************************************************************)
C3_SessionNeedsUnusedRecord ==
    /\ \A s \in sessions :
          \E r \in Redeemers :
              /\ redeem[r].session = <<s>>
              /\ redeem[r].tokenValue # <<>>
              /\ ~ErrorRedirect(r, "EXPIRED_TOKEN")
    /\ \A r, q \in Redeemers :
          (r # q /\ redeem[r].session # <<>> /\ redeem[q].session # <<>>)
              => redeem[r].tokenValue # redeem[q].tokenValue
    /\ Cardinality(sessions) <= RecordsIssued

(***************************************************************************)
(* C4  With disableSignUp no account is ever created, and a redemption     *)
(* that reaches the account lookup for an email without account ends with  *)
(* error=USER_NOT_FOUND.                                                   *)
(***************************************************************************)
C4_DisableSignUpCreatesNoAccount ==
    options.disableSignUp =>
        /\ users = {User0}
        /\ \A r \in Redeemers :
              /\ redeem[r].newUser = <<>>
              /\ redeem[r].pc # "createUser"
              /\ ( /\ Done(r)
                   /\ redeem[r].tokenValue # <<>>
                   /\ ~ErrorRedirect(r, "EXPIRED_TOKEN")
                   /\ FindUserByEmail(redeem[r].tokenValue[1].value) = <<>> )
                 => ( /\ ErrorRedirect(r, "USER_NOT_FOUND")
                      /\ redeem[r].session = <<>> )

C4_Witness ==
    \E r \in Redeemers :
        /\ options.disableSignUp
        /\ Done(r)
        /\ redeem[r].tokenValue # <<>>
        /\ ErrorRedirect(r, "USER_NOT_FOUND")

(***************************************************************************)
(* C5  A redemption whose record is expired when checked ends with         *)
(* error=EXPIRED_TOKEN, creates no account and no session and deletes the  *)
(* record; a later redemption of that token ends with INVALID_TOKEN.       *)
(***************************************************************************)
C5_ExpiredState ==
    \A r \in Redeemers :
        /\ (redeem[r].pc = "deleteExpired" \/ ErrorRedirect(r, "EXPIRED_TOKEN"))
              => ( /\ redeem[r].tokenValue # <<>>
                   /\ redeem[r].newUser = <<>>
                   /\ redeem[r].session = <<>>
                   /\ redeem[r].cookie = <<>> )
        /\ (Done(r) /\ ErrorRedirect(r, "EXPIRED_TOKEN"))
              => FindVerificationValue(redeem[r].token) = <<>>
        /\ \A q \in redeem[r].after :
              (ErrorRedirect(q, "EXPIRED_TOKEN") /\ Done(r))
                  => ( /\ ErrorRedirect(r, "INVALID_TOKEN")
                       /\ ~ErrorRedirect(r, "EXPIRED_TOKEN") )

C5_ExpiredStep ==
    \A r \in Redeemers :
        /\ ( /\ redeem[r].pc = "checkToken"
             /\ redeem[r].tokenValue # <<>>
             /\ redeem[r].tokenValue[1].expiresAt < now
             /\ Stepped(r) )
           => redeem'[r].pc = "deleteExpired"
        /\ (redeem[r].pc = "deleteExpired" /\ Stepped(r))
           => ( /\ redeem'[r].pc = "done"
                /\ redeem'[r].result = Redirect(redeem[r].toRedirectTo
                                                \o "?error=EXPIRED_TOKEN")
                /\ users' = users
                /\ sessions' = sessions )

C5_ExpiredTokenIsConsumed == [](C5_ExpiredState) /\ [][C5_ExpiredStep]_vars

C5_Witness ==
    \E r \in Redeemers :
        /\ Done(r)
        /\ ErrorRedirect(r, "INVALID_TOKEN")
        /\ \E q \in redeem[r].after : ErrorRedirect(q, "EXPIRED_TOKEN")

(***************************************************************************)
(* Vocabulary of the issuance properties.                                  *)
(***************************************************************************)
IssueStepped(i) == issue'[i] # issue[i]

\* the record issuance i writes
IssuedRecord(i) ==
    [id |-> "v:" \o issue[i].verificationToken[1],
     identifier |-> issue[i].verificationToken[1],
     value |-> issue[i].email,
     expiresAt |-> issue[i].expiresAt]

\* what issuance i hands to the delivery callback
Delivery(i) ==
    [email |-> issue[i].email, url |-> issue[i].url,
     token |-> issue[i].verificationToken[1]]

\* a redemption fetched v and went past its delete call
Consumed(v) ==
    \E r \in Redeemers :
        /\ redeem[r].tokenValue = <<v>>
        /\ redeem[r].pc \notin {"checkToken", "deleteExpired",
                                "deleteVerificationValue"}

(***************************************************************************)
(* C6  With disableSignUp, issuance for an email without account fails     *)
(* with BAD_REQUEST; it generates no token, persists no record, delivers   *)
(* nothing, and none of its steps changes the store.                       *)
(***************************************************************************)
C6_State ==
    \A i \in Issuers :
        /\ ( /\ options.disableSignUp
             /\ issue[i].pc = "done"
             /\ FindUserByEmail(issue[i].email) = <<>> )
           => issue[i].result = "BAD_REQUEST"
        /\ issue[i].result = "BAD_REQUEST"
           => ( /\ issue[i].verificationToken = <<>>
                /\ issue[i].url = ""
                /\ \A m \in sent : m.email # issue[i].email
                /\ \A v \in verifications :
                      v = Verification0 \/ v.value # issue[i].email )

C6_Step ==
    \A i \in Issuers :
        (IssueStepped(i) /\ issue'[i].verificationToken = <<>>)
            => UNCHANGED <<verifications, users, sessions, sent, nextToken>>

C6_UnknownEmailRejected == [](C6_State) /\ [][C6_Step]_vars

C6_Witness ==
    \E i \in Issuers :
        /\ options.disableSignUp
        /\ issue[i].pc = "done"
        /\ FindUserByEmail(issue[i].email) = <<>>
        /\ issue[i].result = "BAD_REQUEST"

(***************************************************************************)
(* C7  With sign-up enabled, issuance never rejects an email: it writes    *)
(* exactly one new record, keyed by its token and holding the email, and   *)
(* unless delivery fails it hands that token to the delivery callback and  *)
(* returns {status: true}.                                                 *)
(***************************************************************************)
C7_State ==
    ~options.disableSignUp =>
        \A i \in Issuers :
            /\ issue[i].pc # "idle" => issue[i].verificationToken # <<>>
            /\ issue[i].pc = "done"
               => issue[i].result \in {"status:true", "INTERNAL_SERVER_ERROR"}
            /\ issue[i].result = "status:true" => Delivery(i) \in sent
            /\ issue[i].pc \in {"sendMagicLink", "done"}
               => ( /\ IssuedRecord(i) \in verifications
                       \/ Consumed(IssuedRecord(i))
                    /\ \A v \in verifications :
                          v.identifier = issue[i].verificationToken[1]
                              => v = IssuedRecord(i) )

C7_Step ==
    ~options.disableSignUp =>
        \A i \in Issuers :
            /\ (issue[i].pc = "createVerificationValue" /\ IssueStepped(i))
               => ( /\ IssuedRecord(i) \notin verifications
                    /\ verifications' = verifications \cup {IssuedRecord(i)} )
            /\ (issue[i].pc = "sendMagicLink" /\ IssueStepped(i)
                   /\ sent' # sent)
               => ( /\ sent' = sent \cup {Delivery(i)}
                    /\ issue'[i].result = "status:true" )

C7_IssuanceSucceeds == [](C7_State) /\ [][C7_Step]_vars

C7_Witness ==
    \E i \in Issuers :
        /\ ~options.disableSignUp
        /\ issue[i].result = "status:true"
        /\ FindUserByEmail(issue[i].email) = <<>>
        /\ IssuedRecord(i) \in verifications

(***************************************************************************)
(* C8  A failed delivery ends issuance with INTERNAL_SERVER_ERROR and      *)
(* leaves the record written before it in the store, where it stays until  *)
(* a redemption that fetched it deletes it.                                *)
(***************************************************************************)
C8_State ==
    \A i \in Issuers :
        issue[i].result = "INTERNAL_SERVER_ERROR"
            => ( /\ issue[i].pc = "done"
                 /\ issue[i].verificationToken # <<>>
                 /\ Delivery(i) \notin sent
                 /\ IssuedRecord(i) \in verifications
                    \/ Consumed(IssuedRecord(i)) )

C8_Step ==
    /\ \A i \in Issuers :
          (issue[i].pc = "sendMagicLink" /\ IssueStepped(i) /\ sent' = sent)
              => ( /\ issue'[i].result = "INTERNAL_SERVER_ERROR"
                   /\ verifications' = verifications )
    /\ \A v \in verifications \ verifications' :
          \E r \in Redeemers :
              /\ redeem[r].pc \in {"deleteExpired", "deleteVerificationValue"}
              /\ redeem[r].tokenValue = <<v>>
              /\ Stepped(r)

C8_FailedDeliveryKeepsRecord == [](C8_State) /\ [][C8_Step]_vars

C8_Witness ==
    \E i \in Issuers :
        /\ issue[i].result = "INTERNAL_SERVER_ERROR"
        /\ IssuedRecord(i) \in verifications

(***************************************************************************)
(* C9  A successful redemption without callbackURL returns the payload     *)
(* {session, user}: the session just created and the account it belongs    *)
(* to, whether the account existed or was created by the redemption.       *)
(***************************************************************************)
C9_PayloadHasSessionAndUser ==
    \A r \in Redeemers :
        (Done(r) /\ redeem[r].session # <<>> /\ redeem[r].callbackURL = <<>>)
            => ( /\ redeem[r].result.kind = "json"
                 /\ redeem[r].result.body[1].session = redeem[r].session[1]
                 /\ redeem[r].result.body[1].user # <<>>
                 /\ redeem[r].result.body[1].user[1].id
                       = redeem[r].session[1].userId )

(***************************************************************************)
(* C10  A successful redemption with a callbackURL ends in a redirect to   *)
(* exactly that string.  As claimed, for every callbackURL supplied:       *)
(***************************************************************************)
C10_RedirectForAnyCallbackURL ==
    \A r \in Redeemers :
        (Done(r) /\ redeem[r].session # <<>> /\ redeem[r].callbackURL # <<>>)
            => redeem[r].result = Redirect(redeem[r].callbackURL[1])

(***************************************************************************)
(* C10 (amended)  A successful redemption with a non-empty callbackURL     *)
(* ends in a redirect to exactly that string, nothing prefixed and nothing *)
(* appended; an empty callbackURL counts as none and yields the payload.   *)
(***************************************************************************)
C10_RedirectVerbatim ==
    \A r \in Redeemers :
        (Done(r) /\ redeem[r].session # <<>>)
            => IF TruthyStr(redeem[r].callbackURL)
               THEN redeem[r].result = Redirect(redeem[r].callbackURL[1])
               ELSE redeem[r].result.kind = "json"

C10_Witness ==
    \E r \in Redeemers :
        /\ Done(r)
        /\ redeem[r].session # <<>>
        /\ redeem[r].callbackURL = <<"/dash">>
        /\ redeem[r].result.location = "/dash"

(***************************************************************************)
(* Vocabulary of the redemption outcomes.                                  *)
(***************************************************************************)
\* the redirect target as the interface describes it
ResolvedTarget(callbackURL) ==
    IF callbackURL = <<>>
    THEN OptionsBaseURL
    ELSE IF StartsWith(callbackURL[1], "http")
         THEN callbackURL[1]
         ELSE OptionsBaseURL \o callbackURL[1]

Failed(r) == Done(r) /\ redeem[r].session = <<>>

FailsWith(r, code) ==
    redeem[r].result =
        Redirect(ResolvedTarget(redeem[r].callbackURL) \o "?error=" \o code)

\* the codes the steps r went through allow, in the order of the steps
FirstFailingCodes(r) ==
    IF redeem[r].tokenValue = <<>>
    THEN {"INVALID_TOKEN"}
    ELSE IF redeem[r].user = <<>> /\ redeem[r].newUser = <<>>
         THEN IF options.disableSignUp
                 /\ FindUserByEmail(redeem[r].tokenValue[1].value) = <<>>
              THEN {"EXPIRED_TOKEN", "USER_NOT_FOUND"}
              ELSE {"EXPIRED_TOKEN"}
         ELSE IF redeem[r].userId = ""
              THEN {"USER_NOT_CREATED"}
              ELSE {"SESSION_NOT_CREATED"}

(***************************************************************************)
(* C11  Every failing redemption ends in a redirect to the resolved        *)
(* target followed by ?error=CODE, CODE being the code of the first        *)
(* failing step; the target is callbackURL if it starts with http, the     *)
(* base URL followed by callbackURL if one is present, else the base URL.  *)
(***************************************************************************)
C11_FailureIsErrorRedirect ==
    \A r \in Redeemers :
        Failed(r) =>
            /\ redeem[r].result.kind = "redirect"
            /\ redeem[r].cookie = <<>>
            /\ \E code \in FirstFailingCodes(r) : FailsWith(r, code)

C11_Witness ==
    \E r \in Redeemers :
        /\ Failed(r)
        /\ redeem[r].callbackURL = <<"https://x/y">>
        /\ FailsWith(r, "SESSION_NOT_CREATED")

(***************************************************************************)
(* C12  The verification record is gone before any account or session      *)
(* step: while a redemption looks up or creates the account or creates     *)
(* the session, and when it ends with USER_NOT_CREATED, USER_NOT_FOUND or   *)
(* SESSION_NOT_CREATED, the store holds no record for its token.           *)
(***************************************************************************)
C12_RecordDeletedFirst ==
    \A r \in Redeemers :
        ( \/ redeem[r].pc \in {"findUserByEmail", "createUser",
                               "createSession", "setSessionCookie"}
          \/ redeem[r].user # <<>>
          \/ redeem[r].newUser # <<>>
          \/ redeem[r].session # <<>>
          \/ ErrorRedirect(r, "USER_NOT_CREATED")
          \/ ErrorRedirect(r, "USER_NOT_FOUND")
          \/ ErrorRedirect(r, "SESSION_NOT_CREATED") )
        => ( /\ redeem[r].tokenValue # <<>>
             /\ FindVerificationValue(redeem[r].token) = <<>>
             /\ redeem[r].tokenValue[1] \notin verifications )

C12_Witness ==
    \E r \in Redeemers :
        /\ Done(r)
        /\ ErrorRedirect(r, "SESSION_NOT_CREATED")
        /\ FindVerificationValue(redeem[r].token) = <<>>

(***************************************************************************)
(* C13  There is at most one account per email, also after concurrent      *)
(* redemptions of two different tokens issued for one email: the accounts  *)
(* that redemptions of different tokens create have different emails.      *)
(***************************************************************************)
C13_OneAccountPerEmail ==
    \A r, q \in Redeemers :
        ( /\ r # q
          /\ redeem[r].token # redeem[q].token
          /\ redeem[r].newUser # <<>> /\ redeem[r].userId # ""
          /\ redeem[q].newUser # <<>> /\ redeem[q].userId # "" )
        => ( /\ redeem[r].newUser[1].email # redeem[q].newUser[1].email
             /\ \A u, w \in users : u.email = w.email => u = w )

(***************************************************************************)
(* C14  Issuance is bounded by the rate-limit policy: the window and the   *)
(* max of the policy are the configured rateLimit values whenever          *)
(* rateLimit is configured and 60 seconds and 5 otherwise; no more than    *)
(* max requests of one key reach the handler within one window, and with   *)
(* the default policy a request is rejected only as the 6th or later of    *)
(* its window.                                                             *)
(***************************************************************************)
ConfiguredWindow ==
    IF options.rateLimit # <<>> THEN options.rateLimit[1].window ELSE 60

ConfiguredMax ==
    IF options.rateLimit # <<>> THEN options.rateLimit[1].max ELSE 5

C14_IssuanceBoundedByPolicy ==
    /\ RateLimitWindow(options) = ConfiguredWindow
    /\ RateLimitMax(options) = ConfiguredMax
    /\ limiter.count <= ConfiguredMax
    /\ limiter.rejected > 0 => limiter.count = ConfiguredMax

(***************************************************************************)
(* C15  Every record persisted by issuance has expiresAt equal to the      *)
(* issuance time plus the configured TTL: expiresIn seconds for every      *)
(* configured expiresIn, 300 seconds when expiresIn is not configured.     *)
(***************************************************************************)
ConfiguredTTL ==
    IF options.expiresIn # <<>> THEN options.expiresIn[1] ELSE 300

C15_Step ==
    \A i \in Issuers :
        /\ (IssueStepped(i) /\ issue'[i].pc = "createVerificationValue")
           => issue'[i].expiresAt = now + ConfiguredTTL * 1000
        /\ (IssueStepped(i) /\ issue[i].pc = "createVerificationValue")
           => \A v \in verifications' \ verifications :
                 v.expiresAt = issue[i].expiresAt

C15_ExpiresAtIsIssuanceTimePlusTTL == [][C15_Step]_vars

(***************************************************************************)
(* C16  Expiry boundary: the check of an existing record at instant t      *)
(* takes the EXPIRED_TOKEN branch exactly when expiresAt < t; at           *)
(* t <= expiresAt, t = expiresAt included, the redemption goes on to       *)
(* delete the record and look up the account; a redemption checked after   *)
(* expiresAt creates no session.                                           *)
(***************************************************************************)
C16_State ==
    \A r \in Redeemers :
        (redeem[r].pc = "deleteExpired" \/ ErrorRedirect(r, "EXPIRED_TOKEN"))
            => ( /\ redeem[r].tokenValue # <<>>
                 /\ redeem[r].tokenValue[1].expiresAt < now
                 /\ redeem[r].session = <<>>
                 /\ redeem[r].pc = "done"
                       => ErrorRedirect(r, "EXPIRED_TOKEN") )

C16_Step ==
    /\ \A r \in Redeemers :
          /\ ( /\ redeem[r].pc = "checkToken"
               /\ redeem[r].tokenValue # <<>>
               /\ Stepped(r) )
             => redeem'[r].pc =
                   IF redeem[r].tokenValue[1].expiresAt < now
                   THEN "deleteExpired"
                   ELSE "deleteVerificationValue"
          /\ (redeem[r].pc = "deleteVerificationValue" /\ Stepped(r))
             => ( /\ redeem'[r].pc = "findUserByEmail"
                  /\ redeem[r].tokenValue[1] \notin verifications' )
    /\ sessions' # sessions
          => \E r \in Redeemers :
                /\ redeem[r].pc = "createSession"
                /\ Stepped(r)
                /\ ~ErrorRedirect(r, "EXPIRED_TOKEN")

C16_ExpiryBoundary == [](C16_State) /\ [][C16_Step]_vars

C16_Witness ==
    \E r \in Redeemers :
        /\ redeem[r].pc = "deleteVerificationValue"
        /\ redeem[r].tokenValue[1].expiresAt = now

(***************************************************************************)
(* C17  A redemption sets the session cookie exactly when it created a     *)
(* session, and after it did; no redemption that ends with an error        *)
(* redirect sets one; a redemption ends with exactly one of payload,       *)
(* success redirect and error redirect.                                    *)
(***************************************************************************)
ErrorCodes == {"INVALID_TOKEN", "EXPIRED_TOKEN", "USER_NOT_CREATED",
               "USER_NOT_FOUND", "SESSION_NOT_CREATED"}

IsErrorRedirect(r) == \E code \in ErrorCodes : ErrorRedirect(r, code)

IsSuccessRedirect(r) ==
    /\ redeem[r].callbackURL # <<>>
    /\ redeem[r].result = Redirect(redeem[r].callbackURL[1])

IsPayload(r) == redeem[r].result.kind = "json"

C17_CookieIffSession ==
    \A r \in Redeemers :
        /\ redeem[r].cookie # <<>>
           => ( /\ redeem[r].session # <<>>
                /\ redeem[r].cookie[1].session = redeem[r].session[1]
                /\ redeem[r].session[1] \in sessions )
        /\ Done(r)
           => ( /\ redeem[r].cookie # <<>> <=> redeem[r].session # <<>>
                /\ IsErrorRedirect(r) => redeem[r].cookie = <<>>
                /\ IsErrorRedirect(r) <=> redeem[r].session = <<>>
                /\ Cardinality({k \in {"payload", "success", "error"} :
                       \/ k = "payload" /\ IsPayload(r)
                       \/ k = "success" /\ IsSuccessRedirect(r)
                       \/ k = "error" /\ IsErrorRedirect(r)}) = 1 )

C17_Witness ==
    \E r \in Redeemers :
        /\ Done(r)
        /\ redeem[r].cookie # <<>>
        /\ IsSuccessRedirect(r)

(***************************************************************************)
(* C18  Email binding: every session belongs to an account, with a         *)
(* non-empty id, whose email is the value of the record the redemption     *)
(* consumed.                                                               *)
(***************************************************************************)
C18_SessionBoundToRecordEmail ==
    /\ \A s \in sessions : \E r \in Redeemers : redeem[r].session = <<s>>
    /\ \A r \in Redeemers :
          redeem[r].session # <<>>
              => ( /\ redeem[r].session[1].userId # ""
                   /\ \E u \in users : u.id = redeem[r].session[1].userId
                   /\ \A u \in users :
                         u.id = redeem[r].session[1].userId
                             => u.email = redeem[r].tokenValue[1].value )

C18_Witness ==
    \E r \in Redeemers :
        /\ redeem[r].session # <<>>
        /\ redeem[r].newUser # <<>>
        /\ redeem[r].tokenValue[1].value = "c@d.com"

(***************************************************************************)
(* C19  A redemption whose token has no record ends with INVALID_TOKEN     *)
(* and none of its steps changes the store: no record is deleted, and no   *)
(* account, session or cookie is created.                                  *)
(***************************************************************************)
C19_State ==
    \A r \in Redeemers :
        (redeem[r].pc # "idle" /\ redeem[r].tokenValue = <<>>)
            => ( /\ redeem[r].pc \in {"checkToken", "done"}
                 /\ redeem[r].user = <<>>
                 /\ redeem[r].newUser = <<>>
                 /\ redeem[r].session = <<>>
                 /\ redeem[r].cookie = <<>>
                 /\ Done(r) => FailsWith(r, "INVALID_TOKEN") )

C19_Step ==
    \A r \in Redeemers :
        (Stepped(r) /\ redeem'[r].tokenValue = <<>>)
            => UNCHANGED <<verifications, users, sessions>>

C19_MissingRecordChangesNothing == [](C19_State) /\ [][C19_Step]_vars

C19_Witness ==
    \E r \in Redeemers :
        /\ Done(r)
        /\ redeem[r].tokenValue = <<>>
        /\ FailsWith(r, "INVALID_TOKEN")
        /\ verifications # {}

(***************************************************************************)
(* C20  Tokens are independent: a redemption deletes only the record of    *)
(* the token it was given, issuance deletes none and no step alters a      *)
(* record, so every record in the store is still found by its token,       *)
(* whatever happened to the other tokens of the same email.                *)
(***************************************************************************)
C20_State ==
    \A v \in verifications : FindVerificationValue(v.identifier) = <<v>>

C20_Step ==
    /\ \A v \in verifications \ verifications' :
          \E r \in Redeemers :
              /\ Stepped(r)
              /\ redeem[r].pc \in {"deleteExpired", "deleteVerificationValue"}
              /\ v.identifier = redeem[r].token
    /\ \A v \in verifications' \ verifications :
          \E i \in Issuers :
              /\ IssueStepped(i)
              /\ issue[i].pc = "createVerificationValue"
              /\ v.identifier = issue[i].verificationToken[1]
              /\ \A w \in verifications : w.identifier # v.identifier
    /\ (\E i \in Issuers : IssueStepped(i))
          => verifications \subseteq verifications'

C20_TokensIndependent == [](C20_State) /\ [][C20_Step]_vars

C20_Witness ==
    \E r, q \in Redeemers :
        /\ redeem[r].token # redeem[q].token
        /\ Done(r) /\ redeem[r].session # <<>>
        /\ Done(q) /\ redeem[q].session # <<>>
        /\ redeem[r].tokenValue[1].value = redeem[q].tokenValue[1].value
        /\ redeem[r].after = {} /\ redeem[q].after = {}
====
